---- MODULE Spec2Model ----
(***************************************************************************)
(* propp::Property<T, ReadOnly, ThreadSafe, GetterType, SetterType>        *)
(* (include/propp/Property.hpp) driven by the callbacks of                 *)
(* examples/example.cpp (Person::SetAge, Person::GetAddress).              *)
(*                                                                         *)
(* One Property instance is modelled.  Every member function is a frame on *)
(* the calling thread's stack; every access to a member of the instance    *)
(* (m_Value, m_Mutex, m_SetterActive, m_GetterActive, m_Getter, m_Setter)  *)
(* is a step of its own, so that two threads interleave at the granularity *)
(* of the loads and stores the code performs.                              *)
(***************************************************************************)
EXTENDS Integers, Sequences, FiniteSets, TLC

\* ------------------------------------------------------------------ bounds
\* top-level operations the threads perform on the property, all together
MaxOps == 2

\* ------------------------------------------------------- program constants
\* std::thread t1, t2 of main()
NumThreads == 2
\* std::clamp(value, 0, 150) of Person::SetAge
ClampLo == 0
ClampHi == 150

Threads == 1..NumThreads
NoThread == 0

\* " USA", the static predefinedCountry of Person::GetAddress; a string is
\* a sequence of pieces and + is concatenation
predefinedCountry == <<" USA">>

\* values assigned by the callers: 200, 50, 100 of main(), and one below
\* the clamp range
IntInputs == {-5, 50, 100, 200}
\* right-hand operands of the compound assignments
IntOperands == {3}
StrInputs == {<<>>, <<"Elm St">>}
StrOperands == {<<"!">>}
\* values a Property is constructed with: Age(0, ...), Age(other.Age(), ...)
IntCtor == {0, 150}
StrCtor == {<<"Main St">>}

VARIABLES
    cfg,             \* template arguments and the constructor used (never change)
    initial,         \* m_Value as the constructor left it (never changes)
    m_Value,         \* T m_Value
    m_Mutex,         \* std::recursive_mutex: [owner, count]
    m_Getter,        \* Getter m_Getter
    m_Setter,        \* Setter m_Setter
    m_SetterActive,  \* mutable bool m_SetterActive
    m_GetterActive,  \* mutable bool m_GetterActive
    stack,           \* per thread: the frames of the calls in progress, innermost first
    ret,             \* per thread: the value returned by the last call that returned one
    cur,             \* per thread: the top-level operation in progress or last completed
    prev,            \* per thread: the operation completed right before cur, see Before
    pre,             \* per thread: the members of the instance when cur was called
                     \* (prev and pre are kept where one thread uses the instance:
                     \* with two, other calls come in between)
    ops,             \* per thread: number of top-level operations called
    setterCalls,     \* per thread: invocations of m_Setter during cur
    getterCalls      \* per thread: invocations of m_Getter during cur

vars == <<cfg, initial, m_Value, m_Mutex, m_Getter, m_Setter, m_SetterActive, m_GetterActive,
          stack, ret, cur, prev, pre, ops, setterCalls, getterCalls>>

prop == <<m_Value, m_Mutex, m_Getter, m_Setter, m_SetterActive, m_GetterActive>>
ghost == <<cur, prev, pre, ops, setterCalls, getterCalls>>

\* ------------------------------------------------------ template arguments
T == cfg.T
ReadOnly == cfg.ReadOnly
ThreadSafe == cfg.ThreadSafe
GetterType == cfg.GetterType
SetterType == cfg.SetterType

\* T() : value-initialisation of T
DefaultT(ty) == IF ty = "int" THEN 0 ELSE <<>>

\* the callables of example.cpp that fit a Getter / Setter of the given types;
\* "empty" is a std::function holding no target, NoGetter / NoSetter are the
\* empty structs
Getters(ty, gt) ==
    IF gt = "NoGetter" THEN {"NoGetter"}
    ELSE IF gt = "GetterTypeValue" /\ ty = "string" THEN {"empty", "GetAddress"}
    ELSE {"empty"}

Setters(ty, st) ==
    IF st = "NoSetter" THEN {"NoSetter"}
    ELSE IF ty = "int" THEN {"empty", "SetAge"}
    ELSE {"empty"}

\* ------------------------------------------------------------ arithmetic
Abs(a) == IF a < 0 THEN -a ELSE a

\* int division and remainder truncate towards zero
TruncDiv(a, b) ==
    LET q == Abs(a) \div Abs(b)
    IN  IF (a < 0) # (b < 0) THEN -q ELSE q

TruncMod(a, b) == a - b * TruncDiv(a, b)

\* bitwise operators on two's complement integers (floor halving keeps the
\* sign bits: the recursion ends in 0 or -1)
RECURSIVE BitAnd(_, _)
BitAnd(a, b) ==
    IF a = 0 \/ b = 0 THEN 0
    ELSE IF a = -1 THEN b
    ELSE IF b = -1 THEN a
    ELSE ((a % 2) * (b % 2)) + 2 * BitAnd(a \div 2, b \div 2)

RECURSIVE BitOr(_, _)
BitOr(a, b) ==
    IF a = 0 THEN b
    ELSE IF b = 0 THEN a
    ELSE IF a = -1 \/ b = -1 THEN -1
    ELSE (IF (a % 2) + (b % 2) > 0 THEN 1 ELSE 0) + 2 * BitOr(a \div 2, b \div 2)

RECURSIVE BitXor(_, _)
BitXor(a, b) ==
    IF a = 0 THEN b
    ELSE IF b = 0 THEN a
    ELSE IF a = -1 THEN -b - 1
    ELSE IF b = -1 THEN -a - 1
    ELSE (((a % 2) + (b % 2)) % 2) + 2 * BitXor(a \div 2, b \div 2)

RECURSIVE Pow2(_)
Pow2(k) == IF k = 0 THEN 1 ELSE 2 * Pow2(k - 1)

ShiftLeft(a, k) == a * Pow2(k)
ShiftRight(a, k) == a \div Pow2(k)

\* the compound assignment and increment / decrement operators
IntOps == {"+=", "-=", "*=", "/=", "%=", "&=", "|=", "^=", "<<=", ">>=",
           "++pre", "--pre", "post++", "post--"}
StrOps == {"+="}

\* the lambda each operator hands to ApplyOperation, applied to v
Operation(op, v, value) ==
    CASE op = "+="     -> IF T = "int" THEN v + value ELSE v \o value
      [] op = "-="     -> v - value
      [] op = "*="     -> v * value
      [] op = "/="     -> TruncDiv(v, value)
      [] op = "%="     -> TruncMod(v, value)
      [] op = "&="     -> BitAnd(v, value)
      [] op = "|="     -> BitOr(v, value)
      [] op = "^="     -> BitXor(v, value)
      [] op = "<<="    -> ShiftLeft(v, value)
      [] op = ">>="    -> ShiftRight(v, value)
      [] op = "++pre"  -> v + 1
      [] op = "--pre"  -> v - 1
      [] op = "post++" -> v + 1
      [] op = "post--" -> v - 1

\* a clamp that forgets the upper bound
Clamp_NoUpper(v, lo, hi) == IF v < lo THEN lo ELSE v

\* std::clamp
Clamp(v, lo, hi) == IF v < lo THEN lo ELSE IF hi < v THEN hi ELSE v

\* ------------------------------------------------------------------ frames
Frame(fn, pc, arg, cb, op) == [fn |-> fn, pc |-> pc, arg |-> arg, cb |-> cb, op |-> op]

\* every locking member function opens with
\*     if constexpr (ThreadSafe) { std::lock_guard<std::recursive_mutex> lock(m_Mutex); }
EntryPc == IF ThreadSafe THEN "lock" ELSE "body"

Call(fn, arg, cb, op) == Frame(fn, EntryPc, arg, cb, op)

Running(t) == stack[t] # <<>>
Top(t) == Head(stack[t])
At(t, fn, pc) == Running(t) /\ Top(t).fn = fn /\ Top(t).pc = pc

\* replace the innermost frame of t by the frames fs
Replace(t, fs) == stack' = [stack EXCEPT ![t] = fs \o Tail(@)]

InputsT == IF T = "int" THEN IntInputs ELSE StrInputs
OperandsT == IF T = "int" THEN IntOperands ELSE StrOperands
OpsT == IF T = "int" THEN IntOps ELSE StrOps

\* the threads that use the instance
Users == 1..cfg.users

RECURSIVE Sum(_, _)
Sum(f, S) == IF S = {} THEN 0 ELSE LET x == CHOOSE y \in S : TRUE IN f[x] + Sum(f, S \ {x})

\* top-level operations called so far
OpsCalled == Sum(ops, Threads)

NoOp == [op |-> "none", arg |-> DefaultT(T), cb |-> "none"]

\* the members of the instance
Members == [m_Value |-> m_Value, m_Getter |-> m_Getter, m_Setter |-> m_Setter,
            m_SetterActive |-> m_SetterActive, m_GetterActive |-> m_GetterActive]

\* what is remembered of the operation of t that has just completed: an
\* assignment with the value assigned, a read with the value returned,
\* SetGetter / SetSetter with the callable; a compound operation only as such
Before(t) ==
    CASE cur[t].op = "read" -> [cur[t] EXCEPT !.arg = ret[t]]
      [] cur[t].op \in {"=", "SetGetter", "SetSetter", "none"} -> cur[t]
      [] OTHER -> [op |-> "compound", arg |-> DefaultT(T), cb |-> "none"]

\* --------------------------------------------------------------------- Init
\* the instantiations of the template.  GetterTypeRef and SetterTypeCRef are
\* left out: the code takes the same path for them as for GetterTypeValue
\* and SetterTypeValue, and example.cpp has no callable of those types.
Configs ==
    { c \in [T : {"int", "string"}, ReadOnly : BOOLEAN, ThreadSafe : BOOLEAN,
             GetterType : {"NoGetter", "GetterTypeValue"},
             SetterType : {"NoSetter", "SetterTypeValue"},
             ctor : {"default", "value"}, users : 1..NumThreads] :
        c.users > 1 => c.ThreadSafe }

\* the state after construction, the instance used by `users` threads
Construct(users) ==
    /\ cfg \in Configs
    /\ cfg.users = users
    /\ m_Mutex = [owner |-> NoThread, count |-> 0]
    /\ IF cfg.ctor = "value"
       THEN \* Property(const T& value [, getter] [, setter])
            /\ m_Value \in (IF cfg.T = "int" THEN IntCtor ELSE StrCtor)
            /\ m_Getter \in Getters(cfg.T, cfg.GetterType)
            /\ m_Setter \in Setters(cfg.T, cfg.SetterType)
            /\ m_SetterActive = FALSE
            /\ m_GetterActive = FALSE
       ELSE \* Property() = default : the members are default-initialised
            /\ m_Value \in (IF cfg.T = "int" THEN IntCtor ELSE {<<>>})
            /\ m_Getter = (IF cfg.GetterType = "NoGetter" THEN "NoGetter" ELSE "empty")
            /\ m_Setter = (IF cfg.SetterType = "NoSetter" THEN "NoSetter" ELSE "empty")
            /\ m_SetterActive \in BOOLEAN
            /\ m_GetterActive \in BOOLEAN
    /\ initial = m_Value
    /\ stack = [t \in Threads |-> <<>>]
    /\ ret = [t \in Threads |-> DefaultT(cfg.T)]
    /\ cur = [t \in Threads |-> [op |-> "none", arg |-> DefaultT(cfg.T), cb |-> "none"]]
    /\ prev = cur
    /\ pre = [t \in Threads |-> Members]
    /\ ops = [t \in Threads |-> 0]
    /\ setterCalls = [t \in Threads |-> 0]
    /\ getterCalls = [t \in Threads |-> 0]

\* a Property used by one thread
Init == Construct(1)

\* a thread-safe Property shared by the threads t1 and t2 of main(), made by
\* one of the constructors that take the value, as john2.Age is
InitMT == Construct(NumThreads) /\ cfg.ctor = "value"

\* ------------------------------------------------------ top-level operations
\* bookkeeping of a top-level call by thread t
Begin(t, op, arg, cb) ==
    /\ t \in Users
    /\ ~Running(t)
    /\ OpsCalled < MaxOps
    /\ ops' = [ops EXCEPT ![t] = @ + 1]
    /\ prev' = [prev EXCEPT ![t] = IF cfg.users = 1 THEN Before(t) ELSE @]
    /\ cur' = [cur EXCEPT ![t] = [op |-> op, arg |-> arg, cb |-> cb]]
    /\ pre' = [pre EXCEPT ![t] = IF cfg.users = 1 THEN Members ELSE @]
    /\ setterCalls' = [setterCalls EXCEPT ![t] = 0]
    /\ getterCalls' = [getterCalls EXCEPT ![t] = 0]

\* Property& operator=(const F& value) : enabled only when !ReadOnly
CallAssign(t) ==
    /\ ~ReadOnly
    /\ \E value \in InputsT :
         /\ Begin(t, "=", value, "none")
         /\ stack' = [stack EXCEPT ![t] = <<Call("Set", value, "none", "none")>>]
    /\ UNCHANGED <<cfg, initial, prop, ret>>

\* operator T(), operator*(), operator()() : return Get()
CallRead(t) ==
    /\ Begin(t, "read", DefaultT(T), "none")
    /\ stack' = [stack EXCEPT ![t] = <<Call("Get", DefaultT(T), "none", "none")>>]
    /\ UNCHANGED <<cfg, initial, prop, ret>>

\* operator+= ... operator>>=, operator++, operator-- : return ApplyOperation(lambda)
CallCompound(t) ==
    /\ \E op \in OpsT, value \in OperandsT :
         /\ Begin(t, op, value, "none")
         /\ stack' = [stack EXCEPT ![t] = <<Call("ApplyOperation", value, "none", op)>>]
    /\ UNCHANGED <<cfg, initial, prop, ret>>

\* ----------------------------------------------------------- the lock guard
\* std::lock_guard<std::recursive_mutex> lock(m_Mutex) : blocks while another
\* thread owns the mutex
LockGuardCtor(t) ==
    /\ Running(t) /\ Top(t).pc = "lock"
    /\ m_Mutex.owner \in {NoThread, t}
    /\ m_Mutex' = [owner |-> t, count |-> m_Mutex.count + 1]
    /\ Replace(t, <<[Top(t) EXCEPT !.pc = "unlock"]>>)
    /\ UNCHANGED <<cfg, initial, m_Value, m_Getter, m_Setter, m_SetterActive, m_GetterActive,
                   ret, ghost>>

\* a lock that is taken and never released
LockGuardDtor_Leak(t) ==
    /\ Running(t) /\ Top(t).pc = "unlock"
    /\ Replace(t, <<[Top(t) EXCEPT !.pc = "body"]>>)
    /\ UNCHANGED <<cfg, initial, prop, ret, ghost>>

\* the closing brace of the if constexpr block: ~lock_guard()
LockGuardDtor(t) ==
    /\ Running(t) /\ Top(t).pc = "unlock"
    /\ m_Mutex' = IF m_Mutex.count = 1
                  THEN [owner |-> NoThread, count |-> 0]
                  ELSE [m_Mutex EXCEPT !.count = @ - 1]
    /\ Replace(t, <<[Top(t) EXCEPT !.pc = "body"]>>)
    /\ UNCHANGED <<cfg, initial, m_Value, m_Getter, m_Setter, m_SetterActive, m_GetterActive,
                   ret, ghost>>

\* ---------------------------------------------------------------- write path
\* Set : SetST(newValue)
Set(t) ==
    /\ At(t, "Set", "body")
    /\ Replace(t, <<Frame("SetST", "check", Top(t).arg, "none", "none")>>)
    /\ UNCHANGED <<cfg, initial, prop, ret, ghost>>

\* the test of SetST: if constexpr (SetterType is not NoSetter)
\*                        if (m_Setter && !m_SetterActive)
SetterDispatch == SetterType # "NoSetter" /\ m_Setter # "empty" /\ ~m_SetterActive

SetST(t) ==
    /\ At(t, "SetST", "check")
    /\ Replace(t, <<[Top(t) EXCEPT !.pc = IF SetterDispatch THEN "guard" ELSE "store"]>>)
    /\ UNCHANGED <<cfg, initial, prop, ret, ghost>>

\* SetterGuard guard(*this)
SetterGuardCtor(t) ==
    /\ At(t, "SetST", "guard")
    /\ m_SetterActive' = TRUE
    /\ Replace(t, <<[Top(t) EXCEPT !.pc = "invoke"]>>)
    /\ UNCHANGED <<cfg, initial, m_Value, m_Mutex, m_Getter, m_Setter, m_GetterActive, ret, ghost>>

\* SetST that guards but never invokes m_Setter
SetSTInvoke_NoCall(t) ==
    /\ At(t, "SetST", "invoke")
    /\ Replace(t, <<[Top(t) EXCEPT !.pc = "unguard"]>>)
    /\ UNCHANGED <<cfg, initial, prop, ret, ghost>>

\* m_Setter(newValue)
SetSTInvoke(t) ==
    /\ At(t, "SetST", "invoke")
    /\ Replace(t, <<Frame(m_Setter, "body", Top(t).arg, "none", "none"),
                    [Top(t) EXCEPT !.pc = "unguard"]>>)
    /\ setterCalls' = [setterCalls EXCEPT ![t] = @ + 1]
    /\ UNCHANGED <<cfg, initial, prop, ret, cur, prev, pre, ops, getterCalls>>

\* a guard that leaves m_SetterActive set
SetterGuardDtor_Stuck(t) ==
    /\ At(t, "SetST", "unguard")
    /\ Replace(t, <<>>)
    /\ UNCHANGED <<cfg, initial, prop, ret, ghost>>

\* return; ~SetterGuard()
SetterGuardDtor(t) ==
    /\ At(t, "SetST", "unguard")
    /\ m_SetterActive' = FALSE
    /\ Replace(t, <<>>)
    /\ UNCHANGED <<cfg, initial, m_Value, m_Mutex, m_Getter, m_Setter, m_GetterActive, ret, ghost>>

\* SetST returning before the store
SetSTStore_Lost(t) ==
    /\ At(t, "SetST", "store")
    /\ Replace(t, <<>>)
    /\ UNCHANGED <<cfg, initial, prop, ret, ghost>>

\* m_Value = newValue
SetSTStore(t) ==
    /\ At(t, "SetST", "store")
    /\ m_Value' = Top(t).arg
    /\ Replace(t, <<>>)
    /\ UNCHANGED <<cfg, initial, m_Mutex, m_Getter, m_Setter, m_SetterActive, m_GetterActive,
                   ret, ghost>>

\* Person::SetAge : Age = std::clamp(value, 0, 150)
SetAge(t) ==
    /\ At(t, "SetAge", "body")
    /\ Replace(t, <<Call("Set", Clamp(Top(t).arg, ClampLo, ClampHi), "none", "none")>>)
    /\ UNCHANGED <<cfg, initial, prop, ret, ghost>>

\* ----------------------------------------------------------------- read path
\* Get : return GetST()
Get(t) ==
    /\ At(t, "Get", "body")
    /\ Replace(t, <<Frame("GetST", "check", Top(t).arg, "none", "none")>>)
    /\ UNCHANGED <<cfg, initial, prop, ret, ghost>>

\* the test of GetST: if constexpr (GetterType is not NoGetter)
\*                        if (m_Getter && !m_GetterActive)
GetterDispatch == GetterType # "NoGetter" /\ m_Getter # "empty" /\ ~m_GetterActive

GetST(t) ==
    /\ At(t, "GetST", "check")
    /\ Replace(t, <<[Top(t) EXCEPT !.pc = IF GetterDispatch THEN "guard" ELSE "load"]>>)
    /\ UNCHANGED <<cfg, initial, prop, ret, ghost>>

\* GetterGuard guard(*this)
GetterGuardCtor(t) ==
    /\ At(t, "GetST", "guard")
    /\ m_GetterActive' = TRUE
    /\ Replace(t, <<[Top(t) EXCEPT !.pc = "invoke"]>>)
    /\ UNCHANGED <<cfg, initial, m_Value, m_Mutex, m_Getter, m_Setter, m_SetterActive, ret, ghost>>

\* return m_Getter()
GetSTInvoke(t) ==
    /\ At(t, "GetST", "invoke")
    /\ Replace(t, <<Frame(m_Getter, "body", Top(t).arg, "none", "none"),
                    [Top(t) EXCEPT !.pc = "unguard"]>>)
    /\ getterCalls' = [getterCalls EXCEPT ![t] = @ + 1]
    /\ UNCHANGED <<cfg, initial, prop, ret, cur, prev, pre, ops, setterCalls>>

\* a guard that leaves m_GetterActive set
GetterGuardDtor_Stuck(t) ==
    /\ At(t, "GetST", "unguard")
    /\ Replace(t, <<>>)
    /\ UNCHANGED <<cfg, initial, prop, ret, ghost>>

\* ~GetterGuard() : the value the getter returned is the result
GetterGuardDtor(t) ==
    /\ At(t, "GetST", "unguard")
    /\ m_GetterActive' = FALSE
    /\ Replace(t, <<>>)
    /\ UNCHANGED <<cfg, initial, m_Value, m_Mutex, m_Getter, m_Setter, m_SetterActive, ret, ghost>>

\* return m_Value
GetSTLoad(t) ==
    /\ At(t, "GetST", "load")
    /\ ret' = [ret EXCEPT ![t] = m_Value]
    /\ Replace(t, <<>>)
    /\ UNCHANGED <<cfg, initial, prop, ghost>>

\* Person::GetAddress : the call Address()
GetAddress(t) ==
    /\ At(t, "GetAddress", "body")
    /\ Replace(t, <<Call("Get", Top(t).arg, "none", "none"),
                    [Top(t) EXCEPT !.pc = "append"]>>)
    /\ UNCHANGED <<cfg, initial, prop, ret, ghost>>

\* Person::GetAddress : return Address() + predefinedCountry
GetAddressReturn(t) ==
    /\ At(t, "GetAddress", "append")
    /\ ret' = [ret EXCEPT ![t] = @ \o predefinedCountry]
    /\ Replace(t, <<>>)
    /\ UNCHANGED <<cfg, initial, prop, ghost>>

\* ------------------------------------------------------- compound operations
\* ApplyOperation : auto value = GetST()
ApplyOperation(t) ==
    /\ At(t, "ApplyOperation", "body")
    /\ Replace(t, <<Frame("GetST", "check", Top(t).arg, "none", "none"),
                    [Top(t) EXCEPT !.pc = "apply"]>>)
    /\ UNCHANGED <<cfg, initial, prop, ret, ghost>>

\* ApplyOperation storing the result itself instead of calling SetST
ApplyOperationWrite_Direct(t) ==
    /\ At(t, "ApplyOperation", "apply")
    /\ m_Value' = Operation(Top(t).op, ret[t], Top(t).arg)
    /\ Replace(t, <<>>)
    /\ UNCHANGED <<cfg, initial, m_Mutex, m_Getter, m_Setter, m_SetterActive, m_GetterActive,
                   ret, ghost>>

\* ApplyOperation : operation(value); SetST(value); return *this
ApplyOperationWrite(t) ==
    /\ At(t, "ApplyOperation", "apply")
    /\ Replace(t, <<Frame("SetST", "check", Operation(Top(t).op, ret[t], Top(t).arg),
                          "none", "none")>>)
    /\ UNCHANGED <<cfg, initial, prop, ret, ghost>>

\* ------------------------------------------------------ SetGetter, SetSetter
\* void SetGetter(const Getter& customGetter)
CallSetGetter(t) ==
    /\ \E customGetter \in Getters(T, GetterType) :
         /\ Begin(t, "SetGetter", DefaultT(T), customGetter)
         /\ stack' = [stack EXCEPT ![t] = <<Call("SetGetter", DefaultT(T), customGetter, "none")>>]
    /\ UNCHANGED <<cfg, initial, prop, ret>>

\* if constexpr (std::is_same_v<GetterType, NoGetter>) m_Getter = customGetter
SetGetter(t) ==
    /\ At(t, "SetGetter", "body")
    /\ m_Getter' = IF GetterType = "NoGetter" THEN Top(t).cb ELSE m_Getter
    /\ Replace(t, <<>>)
    /\ UNCHANGED <<cfg, initial, m_Value, m_Mutex, m_Setter, m_SetterActive, m_GetterActive,
                   ret, ghost>>

\* void SetSetter(const Setter& customSetter) : enabled only when !ReadOnly
CallSetSetter(t) ==
    /\ ~ReadOnly
    /\ \E customSetter \in Setters(T, SetterType) :
         /\ Begin(t, "SetSetter", DefaultT(T), customSetter)
         /\ stack' = [stack EXCEPT ![t] = <<Call("SetSetter", DefaultT(T), customSetter, "none")>>]
    /\ UNCHANGED <<cfg, initial, prop, ret>>

\* SetSetter that also resets the reentrancy flag of the setter
SetSetter_Reset(t) ==
    /\ At(t, "SetSetter", "body")
    /\ m_Setter' = IF SetterType = "NoSetter" THEN Top(t).cb ELSE m_Setter
    /\ m_SetterActive' = FALSE
    /\ Replace(t, <<>>)
    /\ UNCHANGED <<cfg, initial, m_Value, m_Mutex, m_Getter, m_GetterActive, ret, ghost>>

\* if constexpr (std::is_same_v<SetterType, NoSetter>) m_Setter = customSetter
SetSetter(t) ==
    /\ At(t, "SetSetter", "body")
    /\ m_Setter' = IF SetterType = "NoSetter" THEN Top(t).cb ELSE m_Setter
    /\ Replace(t, <<>>)
    /\ UNCHANGED <<cfg, initial, m_Value, m_Mutex, m_Getter, m_SetterActive, m_GetterActive,
                   ret, ghost>>

\* ---------------------------------------------------------------------- Next
Next ==
    \E t \in Threads :
        \/ CallAssign(t)
        \/ CallRead(t)
        \/ CallCompound(t)
        \/ CallSetGetter(t)
        \/ CallSetSetter(t)
        \/ LockGuardCtor(t)
        \/ LockGuardDtor(t)
        \/ Set(t)
        \/ SetST(t)
        \/ SetterGuardCtor(t)
        \/ SetSTInvoke(t)
        \/ SetterGuardDtor(t)
        \/ SetSTStore(t)
        \/ SetAge(t)
        \/ Get(t)
        \/ GetST(t)
        \/ GetterGuardCtor(t)
        \/ GetSTInvoke(t)
        \/ GetterGuardDtor(t)
        \/ GetSTLoad(t)
        \/ GetAddress(t)
        \/ GetAddressReturn(t)
        \/ ApplyOperation(t)
        \/ ApplyOperationWrite(t)
        \/ SetGetter(t)
        \/ SetSetter(t)

Spec == Init /\ [][Next]_vars

\* the steps of the calls in progress of thread t
Step(t) ==
    \/ LockGuardCtor(t)
    \/ LockGuardDtor(t)
    \/ Set(t)
    \/ SetST(t)
    \/ SetterGuardCtor(t)
    \/ SetSTInvoke(t)
    \/ SetterGuardDtor(t)
    \/ SetSTStore(t)
    \/ SetAge(t)
    \/ Get(t)
    \/ GetST(t)
    \/ GetterGuardCtor(t)
    \/ GetSTInvoke(t)
    \/ GetterGuardDtor(t)
    \/ GetSTLoad(t)
    \/ GetAddress(t)
    \/ GetAddressReturn(t)

\* two threads assigning to and reading the shared Property
NextMT ==
    \E t \in Threads :
        \/ CallAssign(t)
        \/ CallRead(t)
        \/ Step(t)

\* every started thread keeps running: a call in progress takes its next step
SpecMT == InitMT /\ [][NextMT]_vars /\ \A t \in Threads : WF_vars(Step(t))

\* ======================================================================
\* Properties
\* ======================================================================
\* thread t has completed the top-level operation cur[t]
Done(t) == ~Running(t) /\ cur[t].op # "none"

\* a custom setter / getter is installed
HasSetter == SetterType # "NoSetter" /\ m_Setter # "empty"
HasGetter == GetterType # "NoGetter" /\ m_Getter # "empty"

\* thread t has completed a read that directly followed its assignment of
\* prev[t].arg, on a property without custom setter
ReadAfterAssign(t) ==
    /\ Done(t)
    /\ cur[t].op = "read"
    /\ prev[t].op = "="
    /\ ~HasSetter

\* C1 as stated: on a writable property without custom setter, with or
\* without a custom getter, the read that follows the assignment of v
\* returns v.
C1_ReadReturnsWritten ==
    \A t \in Threads : ReadAfterAssign(t) => ret[t] = prev[t].arg

\* C1 amended: on a writable property without custom setter, the read that
\* follows the assignment of v returns v when no custom getter is installed,
\* and what the getter makes of the stored v (v + " USA" for GetAddress) when
\* one is; the stored value is v in both cases.
C1_ReadReturnsWrittenThroughGetter ==
    \A t \in Threads :
        ReadAfterAssign(t) =>
            /\ m_Value = prev[t].arg
            /\ ret[t] = IF HasGetter THEN prev[t].arg \o predefinedCountry ELSE prev[t].arg

C1_Witness ==
    \E t \in Threads :
        /\ ReadAfterAssign(t)
        /\ ~HasGetter
        /\ prev[t].arg # initial
        /\ ret[t] = prev[t].arg

\* the value nearest to v in [ClampLo, ClampHi]
Nearest(v) == IF v < ClampLo THEN ClampLo ELSE IF v > ClampHi THEN ClampHi ELSE v

\* thread t has completed the assignment of cur[t].arg to a property whose
\* setter is SetAge
AssignedThroughSetAge(t) ==
    /\ Done(t)
    /\ cur[t].op = "="
    /\ SetterType # "NoSetter"
    /\ m_Setter = "SetAge"

\* C2: with the clamping setter SetAge, a single-threaded assignment of v
\* leaves the stored value at the bound of [0,150] nearest to v (v itself
\* when in range), so the stored value is within [0,150] after every
\* assignment of a sequence.
C2_AssignmentClamps ==
    \A t \in Threads :
        AssignedThroughSetAge(t) =>
            /\ m_Value = Nearest(cur[t].arg)
            /\ m_Value \in ClampLo..ClampHi

C2_Witness ==
    \E t \in Threads :
        /\ AssignedThroughSetAge(t)
        /\ prev[t].op = "="
        /\ prev[t].arg < ClampLo
        /\ cur[t].arg > ClampHi
        /\ m_Value = ClampHi

\* thread t has completed a read of a property whose getter is GetAddress
ReadThroughGetAddress(t) ==
    /\ Done(t)
    /\ cur[t].op = "read"
    /\ GetterType # "NoGetter"
    /\ m_Getter = "GetAddress"

\* C3: with the getter GetAddress, which reads its own property and appends
\* the suffix, every top-level read returns the raw stored value followed by
\* the suffix once: the getter runs once (the nested read returns the raw
\* value), the stored value is what it was before the read, and a read that
\* follows another read returns what that one returned.
C3_GetterAppendsOnce ==
    \A t \in Threads :
        ReadThroughGetAddress(t) =>
            /\ ret[t] = m_Value \o predefinedCountry
            /\ m_Value = pre[t].m_Value
            /\ getterCalls[t] = 1
            /\ (prev[t].op = "read" => ret[t] = prev[t].arg)

C3_Witness ==
    \E t \in Threads :
        /\ ReadThroughGetAddress(t)
        /\ prev[t].op = "read"
        /\ ret[t] = initial \o predefinedCountry
        /\ ret[t] = prev[t].arg

\* every thread has completed one assignment, its only operation, to a
\* thread-safe property whose setter is SetAge
AllAssignedOnce ==
    /\ ThreadSafe
    /\ SetterType # "NoSetter"
    /\ m_Setter = "SetAge"
    /\ \A t \in Threads : Done(t) /\ cur[t].op = "=" /\ ops[t] = 1

\* C4: when the two threads have each completed one assignment, of values
\* inside the clamp range, to the same thread-safe property whose setter
\* writes back into it, the stored value is one of the two values assigned.
C4_FinalValueIsOneOfWritten ==
    (/\ AllAssignedOnce
     /\ \A t \in Threads : cur[t].arg \in ClampLo..ClampHi)
    => m_Value \in {cur[t].arg : t \in Threads}

C4_Witness ==
    /\ AllAssignedOnce
    /\ \A t \in Threads : cur[t].arg \in ClampLo..ClampHi
    /\ \E t, u \in Threads : cur[t].arg # cur[u].arg /\ m_Value = cur[t].arg
    /\ \A t \in Threads : cur[t].arg # initial

\* thread t is inside an assignment to a property whose setter is SetAge
Assigning(t) ==
    /\ Running(t)
    /\ cur[t].op = "="
    /\ SetterType # "NoSetter"
    /\ m_Setter = "SetAge"

\* C5: when two threads assign concurrently to the same thread-safe property
\* whose setter writes back into it, every assignment that has started
\* eventually returns (no deadlock, no unbounded recursion), provided each
\* thread keeps being scheduled.
C5_AssignmentsReturn ==
    \A t \in Threads : Assigning(t) ~> Done(t)

\* a thread is inside the setter for the second time within one assignment:
\* the other thread's assignment, made meanwhile, has cleared m_SetterActive
\* on its way out
C5_Witness ==
    /\ ThreadSafe
    /\ \E t, u \in Threads :
         /\ t # u
         /\ Assigning(t)
         /\ setterCalls[t] = 2
         /\ Done(u)
         /\ cur[u].op = "="
         /\ setterCalls[u] = 1

\* thread t is inside GetST, SetST or the body of ApplyOperation
Inside(t) ==
    \E i \in 1..Len(stack[t]) :
        \/ stack[t][i].fn \in {"GetST", "SetST"}
        \/ stack[t][i].fn = "ApplyOperation" /\ stack[t][i].pc \in {"body", "apply"}

\* C6: on a thread-safe property no two threads are inside GetST, SetST or
\* ApplyOperation of the instance at the same time.
C6_MutualExclusion ==
    ThreadSafe =>
        \A t, u \in Threads : t # u => ~(Inside(t) /\ Inside(u))

\* thread t has completed a compound assignment, increment or decrement
CompoundDone(t) == Done(t) /\ cur[t].op \in IntOps \cup StrOps

\* what one read of the property returns when raw is stored: through the
\* getter if one is set
ReadOf(raw) == IF HasGetter THEN raw \o predefinedCountry ELSE raw

\* what one write of v stores: through the setter if one is set
WriteOf(v) == IF HasSetter THEN Nearest(v) ELSE v

\* C7: a compound assignment, increment or decrement applied single-threaded
\* leaves the property as one read (through the getter if set), the operator
\* applied to a copy of the result, and one write of the copy (through the
\* setter if set) would: the getter and the setter run once each, and the
\* reentrancy flags are as before.
C7_CompoundIsReadApplyWrite ==
    \A t \in Threads :
        CompoundDone(t) =>
            /\ m_Value = WriteOf(Operation(cur[t].op, ReadOf(pre[t].m_Value), cur[t].arg))
            /\ getterCalls[t] = (IF HasGetter THEN 1 ELSE 0)
            /\ setterCalls[t] = (IF HasSetter THEN 1 ELSE 0)
            /\ m_SetterActive = pre[t].m_SetterActive
            /\ m_GetterActive = pre[t].m_GetterActive

C7_Witness ==
    \E t \in Threads :
        /\ CompoundDone(t)
        /\ HasSetter
        /\ cur[t].op = "*="
        /\ pre[t].m_Value * cur[t].arg > ClampHi
        /\ m_Value = ClampHi

\* C8: the stored value of a read-only property is the value it was
\* constructed with, whatever public operations have been applied.
C8_ReadOnlyValueNeverChanges ==
    (ReadOnly /\ cfg.ctor = "value") => m_Value = initial

\* the stored value and both reentrancy flags are as they were when the
\* operation of t was called
MembersKept(t) ==
    /\ m_Value = pre[t].m_Value
    /\ m_SetterActive = pre[t].m_SetterActive
    /\ m_GetterActive = pre[t].m_GetterActive

\* C9: SetGetter on a NoGetter property and SetSetter on a NoSetter property
\* return normally and change neither the stored value nor the reentrancy
\* flags; the read / the assignment that follows goes directly to the stored
\* value, no callback is invoked.
C9_DisallowedSlotIsNoOp ==
    \A t \in Threads :
        /\ (Done(t) /\ cur[t].op = "SetGetter" /\ GetterType = "NoGetter")
              => (MembersKept(t) /\ ~GetterDispatch)
        /\ (Done(t) /\ cur[t].op = "SetSetter" /\ SetterType = "NoSetter")
              => (MembersKept(t) /\ ~SetterDispatch)
        /\ (Done(t) /\ cur[t].op = "read" /\ prev[t].op = "SetGetter" /\ GetterType = "NoGetter")
              => (getterCalls[t] = 0 /\ ret[t] = m_Value /\ MembersKept(t))
        /\ (Done(t) /\ cur[t].op = "=" /\ prev[t].op = "SetSetter" /\ SetterType = "NoSetter")
              => (setterCalls[t] = 0 /\ m_Value = cur[t].arg)

C9_Witness ==
    \E t \in Threads :
        /\ Done(t)
        /\ cur[t].op = "="
        /\ prev[t].op = "SetSetter"
        /\ SetterType = "NoSetter"
        /\ m_SetterActive
        /\ m_Value = cur[t].arg
        /\ m_Value # initial

\* thread t is between the construction and the destruction of a SetterGuard
InSetter(t) ==
    \E i \in 1..Len(stack[t]) :
        stack[t][i].fn = "SetST" /\ stack[t][i].pc \in {"invoke", "unguard"}

\* C10: single-threaded, with the setter SetAge, which writes back into its
\* own property: m_SetterActive is set exactly while the setter runs; every
\* top-level write invokes the setter once, never a second time from the
\* nested write; when the write has returned the flag is clear, so the next
\* write is dispatched to the setter again.
C10_SetterOncePerWrite ==
    \A t \in Users :
        (SetterType # "NoSetter" /\ m_Setter = "SetAge") =>
            /\ m_SetterActive = InSetter(t)
            /\ cur[t].op \in {"="} \cup IntOps =>
                  /\ setterCalls[t] <= 1
                  /\ Done(t) => (setterCalls[t] = 1 /\ ~m_SetterActive)

C10_Witness ==
    \E t \in Users :
        /\ SetterType # "NoSetter" /\ m_Setter = "SetAge"
        /\ Done(t)
        /\ cur[t].op = "="
        /\ prev[t].op = "="
        /\ setterCalls[t] = 1
        /\ ~m_SetterActive

\* C11: on a thread-safe property with the clamping setter SetAge, constructed
\* with a value in [0,150], the stored value is within [0,150] in every
\* reachable state, whatever integers the two threads write and however
\* their writes interleave: a write by one thread while the other is inside
\* the setter still goes through the setter.
C11_StoredValueAlwaysClamped ==
    (/\ ThreadSafe
     /\ SetterType # "NoSetter"
     /\ m_Setter = "SetAge"
     /\ initial \in ClampLo..ClampHi)
    => m_Value \in ClampLo..ClampHi

\* C12: on a property that has a setter slot, the write that follows
\* SetSetter(s) is dispatched to s; on a property that has a getter slot, the
\* read that follows SetGetter(g) is dispatched to g (s, g callables with a
\* target, the reentrancy flags clear).
C12_InstalledCallbackIsDispatched ==
    \A t \in Users :
        /\ (/\ Done(t)
            /\ cur[t].op = "="
            /\ prev[t].op = "SetSetter"
            /\ SetterType # "NoSetter"
            /\ prev[t].cb # "empty"
            /\ ~pre[t].m_SetterActive)
           => (m_Setter = prev[t].cb /\ setterCalls[t] = 1)
        /\ (/\ Done(t)
            /\ cur[t].op = "read"
            /\ prev[t].op = "SetGetter"
            /\ GetterType # "NoGetter"
            /\ prev[t].cb # "empty"
            /\ ~pre[t].m_GetterActive)
           => (m_Getter = prev[t].cb /\ getterCalls[t] = 1)

====
